---- MODULE Spec2Model ----
(***************************************************************************)
(* A model of node-android-logging (src/index.js): the module-level        *)
(* configuration of the three sinks (stdout, stderr, in-memory queue), the *)
(* lazy defaulting run by every log call, the rendering of the arguments,  *)
(* the call-site resolution and the dispatch of the message.               *)
(*                                                                         *)
(* JavaScript values.  A property of module.exports that may be undefined  *)
(* is a sequence of length at most one: <<>> is undefined, <<v>> is the    *)
(* value v.  Strings are TLA+ strings.  A function that may throw returns  *)
(* a record whose field error is the message of the exception, or NoError. *)
(***************************************************************************)
EXTENDS Integers, Sequences, FiniteSets, TLC

VARIABLES _enableStdout, _stdoutLevel, _enableStderr, _stderrLevel,
          _enableQueue, _queueLevel, _fileFuncPad, _linePad, _queue,
          stdout, stderr, thrown, returned, logged, cfgCalls, paddingSet

vars == <<_enableStdout, _stdoutLevel, _enableStderr, _stderrLevel,
          _enableQueue, _queueLevel, _fileFuncPad, _linePad, _queue,
          stdout, stderr, thrown, returned, logged, cfgCalls, paddingSet>>

\* ------------------------------------------------------------------------
\* Bounds of the model.

\* The longest queue a log call may build, under Spec.
MaxQueue == 1

\* The longest queue a log call may build, under SpecQueue.
MaxRetained == 2

\* ------------------------------------------------------------------------
\* JavaScript undefined, and the absence of an exception.

Undefined == <<>>

Def(v) == <<v>>

NoError == ""

\* The element of a set of one element.
only(S) == CHOOSE x \in S : TRUE

\* body(x) for x the value of e: e is evaluated once, however often body
\* uses it.
bind(e, body(_)) == only({ body(x) : x \in {e} })

\* ------------------------------------------------------------------------
\* Strings.

RECURSIVE repeat(_, _)
\* String.prototype.repeat
repeat(str, count) ==
  IF count <= 0 THEN ""
  ELSE bind(count - 1, LAMBDA n : str \o repeat(str, n))

\* The character of str at the 0-based index i, "" past the end.
charAt(str, i) == IF i >= 0 /\ i < Len(str) THEN SubSeq(str, i + 1, i + 1) ELSE ""

\* String.prototype.slice(start) for 0 <= start.
slice(str, start) == IF start >= Len(str) THEN "" ELSE SubSeq(str, start + 1, Len(str))

\* String.prototype.startsWith
startsWith(str, prefix) ==
  Len(str) >= Len(prefix) /\ SubSeq(str, 1, Len(prefix)) = prefix

\* The least and the greatest element of a non-empty set of integers.
least(S) == CHOOSE i \in S : \A j \in S : i <= j

greatest(S) == CHOOSE i \in S : \A j \in S : i >= j

\* String.prototype.indexOf(ch, from) for a one-character ch; -1 when absent.
indexOfFrom(str, ch, from) ==
  bind({i \in from..(Len(str) - 1) : charAt(str, i) = ch},
       LAMBDA found : IF found = {} THEN -1 ELSE least(found))

\* String.prototype.lastIndexOf(ch, from) for a one-character ch; -1 when absent.
lastIndexOfFrom(str, ch, from) ==
  bind({i \in 0..from : charAt(str, i) = ch},
       LAMBDA found : IF found = {} THEN -1 ELSE greatest(found))

RECURSIVE trimLeft(_)
trimLeft(str) ==
  IF startsWith(str, " ") THEN bind(slice(str, 1), LAMBDA rest : trimLeft(rest))
  ELSE str

RECURSIVE trimRight(_)
trimRight(str) ==
  IF Len(str) > 0 /\ charAt(str, Len(str) - 1) = " "
  THEN bind(SubSeq(str, 1, Len(str) - 1), LAMBDA rest : trimRight(rest))
  ELSE str

\* String.prototype.trim (the model's strings hold no white space but the
\* space at their ends).
trim(str) == bind(str, LAMBDA whole : trimRight(trimLeft(whole)))

RECURSIVE concat(_, _, _)
\* The concatenation of the strings pieces[lo], ..., pieces[hi].
concat(pieces, lo, hi) ==
  IF lo > hi THEN ""
  ELSE IF lo = hi THEN pieces[lo]
  ELSE concat(pieces, lo, (lo + hi) \div 2)
       \o concat(pieces, ((lo + hi) \div 2) + 1, hi)

RECURSIVE splitFrom(_, _, _)
\* The pieces of str from the index from on.
splitFrom(str, sep, from) ==
  bind(indexOfFrom(str, sep, from),
       LAMBDA i : IF i < 0 THEN <<slice(str, from)>>
                  ELSE <<SubSeq(str, from + 1, i)>> \o splitFrom(str, sep, i + 1))

\* String.prototype.split(sep) for a one-character separator.
split(str, sep) == splitFrom(str, sep, 0)

RECURSIVE join(_, _)
\* Array.prototype.join
join(strs, sep) ==
  IF Len(strs) = 0 THEN ""
  ELSE IF Len(strs) = 1 THEN strs[1]
  ELSE strs[1] \o sep \o join(Tail(strs), sep)

\* underscore.string pad(): the length is coerced by ~~length, so an
\* undefined length pads to 0, and a string longer than length is kept.
padLength(length) == IF length = Undefined THEN 0 ELSE length[1]

\* underscore.string rpad(str, length): spaces on the right.
rpad(str, length) ==
  bind(padLength(length) - Len(str), LAMBDA n : str \o repeat(" ", n))

\* underscore.string lpad(str, length): spaces on the left.
lpad(str, length) ==
  bind(padLength(length) - Len(str), LAMBDA n : repeat(" ", n) \o str)

RECURSIVE digits(_)
digits(n) ==
  IF n < 10 THEN SubSeq("0123456789", n + 1, n + 1)
  ELSE digits(n \div 10) \o SubSeq("0123456789", (n % 10) + 1, (n % 10) + 1)

\* "" + n for an integer n.
numberToString(n) == IF n < 0 THEN "-" \o digits(0 - n) ELSE digits(n)

\* ------------------------------------------------------------------------
\* module.exports: the state of the logger, and the lines the current call
\* wrote to the two console streams.

\* getSelf(): module.exports as a record of its data properties.  stdout and
\* stderr are the lines written by console.log and console.error.
getSelf ==
  [_enableStdout |-> _enableStdout, _stdoutLevel |-> _stdoutLevel,
   _enableStderr |-> _enableStderr, _stderrLevel |-> _stderrLevel,
   _enableQueue |-> _enableQueue, _queueLevel |-> _queueLevel,
   _fileFuncPad |-> _fileFuncPad, _linePad |-> _linePad,
   _queue |-> _queue, stdout |-> stdout, stderr |-> stderr]

\* The properties stdOutLevel, stdErrLevel and queueLevel that the disable
\* functions read: nothing in the module assigns them, so they are undefined.
stdOutLevel == Undefined

stdErrLevel == Undefined

queueLevel == Undefined

\* A call that returned normally, leaving module.exports as s.
Return(s) == [self |-> s, error |-> NoError]

\* A call that threw, leaving module.exports as s.
Throw(s, message) == [self |-> s, error |-> message]

\* Sequencing of statements: op runs on the state r left unless r threw.
Then(r, op(_)) == bind(r, LAMBDA x : IF x.error # NoError THEN x ELSE op(x.self))

\* ------------------------------------------------------------------------
\* The level table.

_levels == <<"Fatal", "Error", "Warn", "Info", "Debug", "Trace">>

\* _getIntLevel(level) were the index of the level that of indexOf: -1 for
\* a name that is no level, and no exception.
getIntLevelIndexOf(level) ==
  [value |-> IF \E i \in 1..Len(_levels) : _levels[i] = level
             THEN (CHOOSE i \in 1..Len(_levels) : _levels[i] = level) - 1
             ELSE -1,
   error |-> NoError]

RECURSIVE getIntLevelFrom(_, _)
\* The loop of _getIntLevel from the index levelIter (0-based) on.
getIntLevelFrom(level, levelIter) ==
  IF levelIter < Len(_levels)
  THEN IF _levels[levelIter + 1] = level
       THEN [value |-> levelIter, error |-> NoError]
       ELSE getIntLevelFrom(level, levelIter + 1)
  ELSE [value |-> -1, error |-> "Invalid log level supplied: " \o level]

\* _getIntLevel(level): the rank of the level name, or an Error.  The field
\* value is meaningless when error is set.
_getIntLevel(level) == getIntLevelFrom(level, 0)

\* rank <= threshold as JavaScript compares: false against undefined.
lte(rank, threshold) == threshold # Undefined /\ rank <= threshold[1]

\* ------------------------------------------------------------------------
\* The configuration functions.

\* enableStdout(level): the flag is assigned before the level is looked up.
enableStdout(s, level) ==
  LET s1 == [s EXCEPT !._enableStdout = Def(TRUE)]
      r  == _getIntLevel(level)
  IN IF r.error # NoError THEN Throw(s1, r.error)
     ELSE Return([s1 EXCEPT !._stdoutLevel = Def(r.value)])

\* disableStdout() were it to assign the flag and never the level.
disableStdoutFlagOnly(s) == Return([s EXCEPT !._enableStdout = Def(FALSE)])

disableStdout(s) ==
  LET s1 == [s EXCEPT !._enableStdout = Def(FALSE)]
      r  == _getIntLevel("Debug")
  IN IF stdOutLevel = Undefined
     THEN IF r.error # NoError THEN Throw(s1, r.error)
          ELSE Return([s1 EXCEPT !._stdoutLevel = Def(r.value)])
     ELSE Return(s1)

enableStderr(s, level) ==
  LET s1 == [s EXCEPT !._enableStderr = Def(TRUE)]
      r  == _getIntLevel(level)
  IN IF r.error # NoError THEN Throw(s1, r.error)
     ELSE Return([s1 EXCEPT !._stderrLevel = Def(r.value)])

\* disableStderr() were it to assign the flag and never the level.
disableStderrFlagOnly(s) == Return([s EXCEPT !._enableStderr = Def(FALSE)])

disableStderr(s) ==
  LET s1 == [s EXCEPT !._enableStderr = Def(FALSE)]
      r  == _getIntLevel("Debug")
  IN IF stdErrLevel = Undefined
     THEN IF r.error # NoError THEN Throw(s1, r.error)
          ELSE Return([s1 EXCEPT !._stderrLevel = Def(r.value)])
     ELSE Return(s1)

\* enableQueue(level) were it to start the queue afresh.
enableQueueAfresh(s, level) ==
  IF _getIntLevel(level).error # NoError
  THEN Throw([s EXCEPT !._enableQueue = Def(TRUE)], _getIntLevel(level).error)
  ELSE Return([s EXCEPT !._enableQueue = Def(TRUE),
                        !._queueLevel = Def(_getIntLevel(level).value),
                        !._queue = Def(<<>>)])

enableQueue(s, level) ==
  LET s1 == [s EXCEPT !._enableQueue = Def(TRUE)]
      r  == _getIntLevel(level)
  IN IF r.error # NoError THEN Throw(s1, r.error)
     ELSE Return([s1 EXCEPT !._queueLevel = Def(r.value)])

\* disableQueue() were it to discard the retained messages.
disableQueueDiscarding(s) ==
  Return([s EXCEPT !._enableQueue = Def(FALSE),
                   !._queueLevel = Def(4),
                   !._queue = Def(<<>>)])

disableQueue(s) ==
  LET s1 == [s EXCEPT !._enableQueue = Def(FALSE)]
      r  == _getIntLevel("Debug")
  IN IF queueLevel = Undefined
     THEN IF r.error # NoError THEN Throw(s1, r.error)
          ELSE Return([s1 EXCEPT !._queueLevel = Def(r.value)])
     ELSE Return(s1)

\* emptyQueue(): this._queue.length = 0 when the queue exists.
emptyQueue(s) ==
  IF s._queue # Undefined THEN Return([s EXCEPT !._queue = Def(<<>>)])
  ELSE Return(s)

setPadding(s, fileFuncPadLength, linePadLength) ==
  Return([s EXCEPT !._fileFuncPad = Def(fileFuncPadLength),
                   !._linePad = Def(linePadLength)])

\* setDefaults() were stdout the sink enabled by default.
setDefaultsStdout(s) ==
  Then(Then(Then(enableStdout(s, "Debug"),
                 LAMBDA s1 : disableStderr(s1)),
            LAMBDA s2 : disableQueue(s2)),
       LAMBDA s3 : setPadding(s3, 30, 5))

\* setDefaults(): stderr at Debug, the two other sinks off, padding (30, 5).
setDefaults(s) ==
  Then(Then(Then(enableStderr(s, "Debug"),
                 LAMBDA s1 : disableStdout(s1)),
            LAMBDA s2 : disableQueue(s2)),
       LAMBDA s3 : setPadding(s3, 30, 5))

\* The stdout block of checkDefaults.
checkDefaultsStdout(s) ==
  IF s._enableStdout = Undefined THEN disableStdout(s)
  ELSE IF s._stdoutLevel = Undefined THEN enableStdout(s, "Debug")
  ELSE Return(s)

\* The stderr block of checkDefaults were an untouched sink enabled at
\* Debug.
checkDefaultsStderrOn(s) ==
  IF s._enableStderr = Undefined \/ s._stderrLevel = Undefined
  THEN enableStderr(s, "Debug")
  ELSE Return(s)

\* The stderr block of checkDefaults.
checkDefaultsStderr(s) ==
  IF s._enableStderr = Undefined THEN disableStderr(s)
  ELSE IF s._stderrLevel = Undefined THEN enableStderr(s, "Debug")
  ELSE Return(s)

\* The queue block of checkDefaults.
checkDefaultsQueue(s) ==
  IF s._enableQueue = Undefined THEN disableQueue(s)
  ELSE IF s._queueLevel = Undefined THEN enableQueue(s, "Debug")
  ELSE Return(s)

checkDefaults(s) ==
  IF /\ s._enableStdout = Undefined
     /\ s._enableStderr = Undefined
     /\ s._enableQueue = Undefined
  THEN setDefaults(s)
  ELSE Then(Then(checkDefaultsStdout(s),
                 LAMBDA s1 : checkDefaultsStderr(s1)),
            LAMBDA s2 : checkDefaultsQueue(s2))

\* peek() were it to return the newest message.
peekNewest(s) ==
  IF s._queue = Undefined \/ Len(s._queue[1]) = 0
  THEN [self |-> s, error |-> NoError, value |-> ""]
  ELSE [self |-> s, error |-> NoError, value |-> s._queue[1][Len(s._queue[1])]]

\* peek(): the oldest message, "" for no queue or an empty one.
peek(s) ==
  IF s._queue = Undefined \/ Len(s._queue[1]) = 0
  THEN [self |-> s, error |-> NoError, value |-> ""]
  ELSE [self |-> s, error |-> NoError, value |-> s._queue[1][1]]

\* pop() were it Array.prototype.pop: the newest message leaves first.
popNewest(s) ==
  IF s._queue = Undefined \/ Len(s._queue[1]) = 0
  THEN [self |-> s, error |-> NoError, value |-> ""]
  ELSE [self |-> [s EXCEPT !._queue =
                     Def(SubSeq(s._queue[1], 1, Len(s._queue[1]) - 1))],
        error |-> NoError, value |-> s._queue[1][Len(s._queue[1])]]

\* pop(): Array.prototype.shift on the queue, "" for no queue or an empty one.
pop(s) ==
  IF s._queue = Undefined \/ Len(s._queue[1]) = 0
  THEN [self |-> s, error |-> NoError, value |-> ""]
  ELSE [self |-> [s EXCEPT !._queue = Def(Tail(s._queue[1]))],
        error |-> NoError, value |-> s._queue[1][1]]

\* ------------------------------------------------------------------------
\* The values a log call is given.  A value is a record: t is its kind, s
\* the text of a string or the stack of an Error, n a number (1 and 0 for
\* the booleans), keys and items the property names and the elements of an
\* object or array.

Value(t, s, n, keys, items) == [t |-> t, s |-> s, n |-> n, keys |-> keys, items |-> items]

undefinedValue == Value("undefined", "", 0, <<>>, <<>>)

nullValue == Value("null", "", 0, <<>>, <<>>)

booleanValue(b) == Value("boolean", "", IF b THEN 1 ELSE 0, <<>>, <<>>)

stringValue(str) == Value("string", str, 0, <<>>, <<>>)

numberValue(n) == Value("number", "", n, <<>>, <<>>)

arrayValue(items) == Value("array", "", 0, <<>>, items)

objectValue(keys, items) == Value("object", "", 0, keys, items)

\* An Error whose stack property is the text stack.
errorValue(stack) == Value("error", stack, 0, <<>>, <<>>)

functionValue == Value("function", "", 0, <<>>, <<>>)

symbolValue == Value("symbol", "", 0, <<>>, <<>>)

\* typeof arg
typeof(arg) ==
  IF arg.t \in {"null", "array", "object", "error"} THEN "object" ELSE arg.t

\* Object.prototype.toString.call(arg)
toStringTag(arg) ==
  CASE arg.t = "undefined" -> "[object Undefined]"
    [] arg.t = "null"      -> "[object Null]"
    [] arg.t = "boolean"   -> "[object Boolean]"
    [] arg.t = "string"    -> "[object String]"
    [] arg.t = "number"    -> "[object Number]"
    [] arg.t = "array"     -> "[object Array]"
    [] arg.t = "error"     -> "[object Error]"
    [] arg.t = "function"  -> "[object Function]"
    [] arg.t = "symbol"    -> "[object Symbol]"
    [] OTHER               -> "[object Object]"

\* The characters of a JSON string literal: quote, backslash and line feed
\* are escaped.
quoteChars(str) ==
  bind([i \in 1..Len(str) |->
          LET c == charAt(str, i - 1)
          IN IF c = "\"" THEN "\\\""
             ELSE IF c = "\\" THEN "\\\\"
             ELSE IF c = "\n" THEN "\\n"
             ELSE c],
       LAMBDA pieces : concat(pieces, 1, Len(pieces)))

\* JSON's rendering of a string.
quote(str) == "\"" \o quoteChars(str) \o "\""

\* JSON omits a property, and writes null for an array element, of these.
unserializable(v) == v.t \in {"undefined", "function", "symbol"}

RECURSIVE serialize(_, _)
RECURSIVE serializeItems(_, _)
RECURSIVE serializeProperties(_, _, _)
\* JSON.stringify(v, null, 2) of a value nested gap spaces deep; the model's
\* values hold no cycle and no "~", so circular-json writes what JSON does.
serialize(v, gap) ==
  CASE v.t = "string"  -> quote(v.s)
    [] v.t = "number"  -> numberToString(v.n)
    [] v.t = "boolean" -> (IF v.n = 1 THEN "true" ELSE "false")
    [] v.t = "array"   ->
         IF Len(v.items) = 0 THEN "[]"
         ELSE "[\n" \o join(serializeItems(v.items, gap + 2), ",\n")
                    \o "\n" \o repeat(" ", gap) \o "]"
    [] v.t = "object"  ->
         LET properties == serializeProperties(v.keys, v.items, gap + 2)
         IN IF Len(properties) = 0 THEN "{}"
            ELSE "{\n" \o join(properties, ",\n")
                       \o "\n" \o repeat(" ", gap) \o "}"
    [] v.t = "error"   -> "{}"
    [] OTHER           -> "null"

\* The lines of the elements of an array, each indented by gap.
serializeItems(items, gap) ==
  IF Len(items) = 0 THEN <<>>
  ELSE <<repeat(" ", gap) \o serialize(items[1], gap)>>
       \o serializeItems(Tail(items), gap)

\* The lines of the properties of an object, each indented by gap.
serializeProperties(keys, items, gap) ==
  IF Len(keys) = 0 THEN <<>>
  ELSE (IF unserializable(items[1]) THEN <<>>
        ELSE <<repeat(" ", gap) \o quote(keys[1]) \o ": "
               \o serialize(items[1], gap)>>)
       \o serializeProperties(Tail(keys), Tail(items), gap)

\* .replace(/\\n/g, "\n"): every backslash followed by n becomes a line feed
\* (two matches cannot overlap).
unescapeLineFeeds(str) ==
  LET matchAt(i) == charAt(str, i) = "\\" /\ charAt(str, i + 1) = "n"
  IN bind([i \in 1..Len(str) |->
             IF matchAt(i - 1) THEN "\n"
             ELSE IF matchAt(i - 2) THEN ""
             ELSE charAt(str, i - 1)],
          LAMBDA pieces : concat(pieces, 1, Len(pieces)))

\* _stringify(arg) for an array or an object.
_stringify(arg) == bind(serialize(arg, 0), LAMBDA json : unescapeLineFeeds(json))

\* .replace(/[\r\n]+/g, by): by stands for every run of line breaks.
replaceLineBreaks(str, by) ==
  LET breakAt(i) == charAt(str, i) \in {"\n", "\r"}
  IN bind([i \in 1..Len(str) |->
             IF breakAt(i - 1) THEN (IF breakAt(i - 2) THEN "" ELSE by)
             ELSE charAt(str, i - 1)],
          LAMBDA pieces : concat(pieces, 1, Len(pieces)))

\* indent(str, indentSize)
indent(str, indentSize) ==
  LET sliceLength == IF startsWith(str, "\n") THEN 2 + indentSize ELSE 2
  IN bind("\n " \o str,
          LAMBDA whole :
            bind(replaceLineBreaks(whole, "\n" \o repeat(" ", indentSize)),
                 LAMBDA replaced : slice(replaced, sliceLength)))

INDENT_SIZE == 4

RECURSIVE trimAll(_)
\* .map(function(each) { return each.trim(); })
trimAll(lines) ==
  IF Len(lines) = 0 THEN <<>> ELSE <<trim(lines[1])>> \o trimAll(Tail(lines))

RECURSIVE stringValues(_)
\* The array of strings lines as values.
stringValues(lines) ==
  IF Len(lines) = 0 THEN <<>>
  ELSE <<stringValue(lines[1])>> \o stringValues(Tail(lines))

\* The object that replaces an Error before it is serialized.
errorObject(arg) ==
  LET lines == split(arg.s, "\n")
  IN objectValue(<<"error", "stack">>,
                 <<stringValue(lines[1]),
                   arrayValue(stringValues(trimAll(Tail(lines))))>>)

\* _convertToString(arg) were a value of an unsupported type rendered as the
\* empty string.
convertToStringLenient(arg) ==
  IF arg.t \in {"array", "object", "error"}
  THEN [value |-> indent("\n" \o _stringify(
                            IF arg.t = "error" THEN errorObject(arg) ELSE arg),
                         INDENT_SIZE),
        error |-> NoError]
  ELSE [value |-> IF arg.t = "boolean" THEN (IF arg.n = 1 THEN "true" ELSE "false")
                  ELSE IF arg.t = "string" THEN arg.s
                  ELSE IF arg.t = "number" THEN numberToString(arg.n)
                  ELSE "",
        error |-> NoError]

\* _convertToString(arg): value is the rendering, error the message of the
\* TypeError thrown for a value of an unsupported type.
_convertToString(arg) ==
  IF arg.t = "undefined" THEN [value |-> "", error |-> NoError]
  ELSE IF typeof(arg) = "boolean"
  THEN [value |-> IF arg.n = 1 THEN "true" ELSE "false", error |-> NoError]
  ELSE IF typeof(arg) = "string" THEN [value |-> arg.s, error |-> NoError]
  ELSE IF typeof(arg) = "number"
  THEN [value |-> numberToString(arg.n), error |-> NoError]
  ELSE IF arg.t = "array"
  THEN [value |-> indent("\n" \o _stringify(arg), INDENT_SIZE), error |-> NoError]
  ELSE IF arg.t # "null" /\ typeof(arg) = "object"
  THEN LET c == toStringTag(arg)
           a == IF c = "[object Error]" THEN errorObject(arg) ELSE arg
       IN [value |-> indent("\n" \o _stringify(a), INDENT_SIZE), error |-> NoError]
  ELSE [value |-> "",
        error |-> indent("\nUnsupported type: "
                         \o _stringify(objectValue(<<"arg", "type", "toString">>,
                                        <<arg, stringValue(typeof(arg)),
                                          stringValue(toStringTag(arg))>>)),
                         INDENT_SIZE)]

RECURSIVE map_convertToString(_)
\* [].slice.apply(args).map(_convertToString): the renderings in order, or
\* the error of the first argument that throws.
map_convertToString(args) ==
  IF Len(args) = 0 THEN [value |-> <<>>, error |-> NoError]
  ELSE bind(_convertToString(args[1]),
            LAMBDA first :
              IF first.error # NoError THEN [value |-> <<>>, error |-> first.error]
              ELSE bind(map_convertToString(Tail(args)),
                        LAMBDA rest :
                          IF rest.error # NoError THEN rest
                          ELSE [value |-> <<first.value>> \o rest.value,
                                error |-> NoError]))

\* ------------------------------------------------------------------------
\* The inputs of the calls.

\* The level names given to the enable functions: a level, and a name that
\* is no level.
LevelNames == {"Warn", "Verbose"}

\* The argument lists of the log calls.
ArgLists ==
  { <<stringValue("a")>>,
    <<stringValue("a"), symbolValue>>,
    <<functionValue, stringValue("a")>> }

\* The argument lists with an argument that is undefined or null.
RenderArgLists ==
  { <<undefinedValue>>,
    <<nullValue>>,
    <<stringValue("a"), undefinedValue>>,
    <<nullValue, stringValue("a")>> }

\* The widths given to setPadding.
PadWidths == { <<12, 3>> }

\* The lines of (new Error).stack for the frames inside index.js, down to the
\* entry point, which is at line entryLine.
facadeTrace(entry, entryLine) ==
  << "Error",
     "    at Object.module.exports._getStackTrace (/m/index.js:265:16)",
     "    at Object.module.exports._getFileLineFunc (/m/index.js:242:19)",
     "    at Object.module.exports._log (/m/index.js:203:24)",
     "    at Object.module.exports." \o entry \o " (/m/index.js:"
       \o numberToString(entryLine) \o ":13)" >>

\* The entry points and their lines in index.js.
EntryPoints ==
  { <<"F", 108>>, <<"E", 112>>, <<"W", 116>>, <<"I", 120>>, <<"D", 124>>,
    <<"T", 128>> }

\* The lines of the stack below the entry point: a caller in a file of its
\* own, a caller whose file is also named index.js, and a line that is not
\* of the shape "at function (location)".
Callers ==
  { << "    at main (/srv/app.js:12:5)" >>,
    << "    at run (/srv/index.js:7:3)" >>,
    << "    at main (/srv/app.js:12:5)", "    [native]" >> }

\* The inputs of the log calls: every argument list from a caller in a file
\* of its own, and a supported argument from every caller.
LogInputs ==
  { <<args, << "    at main (/srv/app.js:12:5)" >> >> : args \in ArgLists }
  \cup { << <<stringValue("a")>>, callers >> : callers \in Callers }

\* The traces of the model: those of the entry points called by the callers.
Traces ==
  { facadeTrace(entry[1], entry[2]) \o callers :
      entry \in EntryPoints, callers \in Callers }

\* ------------------------------------------------------------------------
\* The call site.

\* .replace(/^.*\//, ""): what follows the last slash.
afterLastSlash(word) ==
  bind(lastIndexOfFrom(word, "/", Len(word) - 1),
       LAMBDA i : IF i < 0 THEN word ELSE slice(word, i + 1))

\* .replace(/:.*$/, ""): what precedes the first colon.
beforeFirstColon(word) ==
  bind(indexOfFrom(word, ":", 0),
       LAMBDA i : IF i < 0 THEN word ELSE SubSeq(word, 1, i))

\* .replace(/\(/, ""): without the first opening parenthesis.
withoutFirstParenthesis(word) ==
  bind(indexOfFrom(word, "(", 0),
       LAMBDA i : IF i < 0 THEN word ELSE SubSeq(word, 1, i) \o slice(word, i + 1))

\* .replace(/^[^:]*:/, ""): what follows the first colon.
afterFirstColon(word) ==
  bind(indexOfFrom(word, ":", 0),
       LAMBDA i : IF i < 0 THEN word ELSE slice(word, i + 1))

\* .replace(/:[^:]*/, ""): without the first colon and the characters up to
\* the next colon.
withoutFirstColonRun(word) ==
  bind(indexOfFrom(word, ":", 0),
       LAMBDA i :
         IF i < 0 THEN word
         ELSE bind(indexOfFrom(word, ":", i + 1),
                   LAMBDA j : IF j < 0 THEN SubSeq(word, 1, i)
                              ELSE SubSeq(word, 1, i) \o slice(word, j)))

\* words[words.length - 1].replace(/^.*\//, "").replace(/:.*$/, "")
\*   .replace(/\(/, "")
replaceFile(word) ==
  bind(afterLastSlash(word),
       LAMBDA tail : bind(beforeFirstColon(tail),
                          LAMBDA name : withoutFirstParenthesis(name)))

\* words[words.length - 1].replace(/^[^:]*:/, "").replace(/:[^:]*/, "")
replaceLine(word) ==
  bind(afterFirstColon(word), LAMBDA tail : withoutFirstColonRun(tail))

\* The body of the loop of _getStackTrace: the frame of one line of the
\* trace; a line of fewer than two words has no words[1] to split.
parseFrame(line) ==
  bind(split(trim(line), " "),
       LAMBDA words :
         IF Len(words) < 2
         THEN [value |-> Undefined,
               error |-> "TypeError: Cannot read property 'split' of undefined"]
         ELSE bind(split(words[2], "."),
                   LAMBDA splt :
                     [value |->
                        Def([file |-> replaceFile(words[Len(words)]),
                             func |-> splt[Len(splt)],
                             line |-> replaceLine(words[Len(words)])]),
                      error |-> NoError]))

RECURSIVE getStackTraceFrom(_, _)
\* The loop of _getStackTrace from the index traceIter (0-based) on.
getStackTraceFrom(trace, traceIter) ==
  IF traceIter >= Len(trace) THEN [value |-> <<>>, error |-> NoError]
  ELSE bind(parseFrame(trace[traceIter + 1]),
            LAMBDA frame :
              IF frame.error # NoError THEN [value |-> <<>>, error |-> frame.error]
              ELSE bind(getStackTraceFrom(trace, traceIter + 1),
                        LAMBDA rest :
                          IF rest.error # NoError THEN rest
                          ELSE [value |-> <<frame.value[1]>> \o rest.value,
                                error |-> NoError]))

\* _getStackTrace(): trace is (new Error).stack.split("\n"), whose first
\* line is the name of the error.
_getStackTrace(trace) == getStackTraceFrom(trace, 1)

\* The value a table of pairs <<key, value>> holds for key.
lookup(table, key) == (CHOOSE pair \in table : pair[1] = key)[2]

\* What _getStackTrace() computes for the traces of the model, computed once.
stacks == { <<trace, _getStackTrace(trace)>> : trace \in Traces }

RECURSIVE scanStack(_, _, _, _)
\* The loop of _getFileLineFunc from stackIter on; past the end of the stack
\* it returns stack[stack.length], which is undefined.
scanStack(s, stack, firstFile, stackIter) ==
  IF stackIter < Len(stack)
  THEN IF firstFile # stack[stackIter + 1].file
       THEN Def([fileFunc |-> rpad(stack[stackIter + 1].file \o " "
                                   \o stack[stackIter + 1].func, s._fileFuncPad),
                 line |-> lpad(stack[stackIter + 1].line, s._linePad)])
       ELSE scanStack(s, stack, firstFile, stackIter + 1)
  ELSE Undefined

\* _getFileLineFunc(): an exception is written by console.log and thrown
\* again.
_getFileLineFunc(s, trace) ==
  bind(lookup(stacks, trace),
       LAMBDA r :
         LET ex == IF r.error # NoError THEN r.error
                   ELSE IF Len(r.value) = 0
                   THEN "TypeError: Cannot read property 'file' of undefined"
                   ELSE NoError
         IN IF ex # NoError
            THEN [self |-> [s EXCEPT !.stdout = Append(s.stdout, ex)],
                  error |-> ex, value |-> Undefined]
            ELSE [self |-> s, error |-> NoError,
                  value |-> scanStack(s, r.value, r.value[1].file, 1)])

\* ------------------------------------------------------------------------
\* The log call.

\* What map(_convertToString) computes for the argument lists of the model,
\* computed once.
renderings ==
  { <<args, map_convertToString(args)>> : args \in ArgLists \cup RenderArgLists }

\* _doLog(logLevel, message): the queue, then stdout, then stderr.
\* The queue's part of _doLog.
doLogQueue(s, rank, message) ==
  IF s._enableQueue = Def(TRUE)
  THEN LET q == IF s._queue = Undefined THEN <<>> ELSE s._queue[1]
       IN IF lte(rank, s._queueLevel)
          THEN [s EXCEPT !._queue = Def(Append(q, message))]
          ELSE [s EXCEPT !._queue = Def(q)]
  ELSE s

\* The standard output's part of _doLog were the comparison strict.
doLogStdoutBelow(s, rank, message) ==
  IF s._enableStdout = Def(TRUE) /\ s._stdoutLevel # Undefined
     /\ rank < s._stdoutLevel[1]
  THEN [s EXCEPT !.stdout = Append(s.stdout, message)]
  ELSE s

\* The standard output's part of _doLog.
doLogStdout(s, rank, message) ==
  IF s._enableStdout = Def(TRUE) /\ lte(rank, s._stdoutLevel)
  THEN [s EXCEPT !.stdout = Append(s.stdout, message)]
  ELSE s

\* The standard error's part of _doLog.
doLogStderr(s, rank, message) ==
  IF s._enableStderr = Def(TRUE) /\ lte(rank, s._stderrLevel)
  THEN [s EXCEPT !.stderr = Append(s.stderr, message)]
  ELSE s

\* _doLog(logLevel, message): the queue, then stdout, then stderr.
_doLog(s, logLevel, message) ==
  bind(_getIntLevel(logLevel),
       LAMBDA r :
         IF r.error # NoError /\ (s._enableQueue = Def(TRUE)
                                  \/ s._enableStdout = Def(TRUE)
                                  \/ s._enableStderr = Def(TRUE))
         THEN Throw(IF s._enableQueue = Def(TRUE) /\ s._queue = Undefined
                    THEN [s EXCEPT !._queue = Def(<<>>)] ELSE s, r.error)
         ELSE bind(doLogQueue(s, r.value, message),
                   LAMBDA s1 :
                     bind(doLogStdout(s1, r.value, message),
                          LAMBDA s2 : Return(doLogStderr(s2, r.value, message)))))

\* printf("%s/%s(%s):", logLevel[0], fileFunc, line)
prefixOf(logLevel, fileLineFunc) ==
  charAt(logLevel, 0) \o "/" \o fileLineFunc.fileFunc
  \o "(" \o fileLineFunc.line \o "):"

\* _log(logLevel, args): the defaults, the renderings, the call site, the
\* dispatch.
\* _log after checkDefaults(), for the renderings strs of the arguments.
logStrings(s, logLevel, strs, trace) ==
  IF strs.error # NoError THEN Throw(s, "TypeError: " \o strs.error)
  ELSE bind(_getFileLineFunc(s, trace),
            LAMBDA f :
              IF f.error # NoError THEN Throw(f.self, f.error)
              ELSE IF f.value = Undefined
              THEN Throw(f.self,
                     "TypeError: Cannot read property 'fileFunc' of undefined")
              ELSE bind(prefixOf(logLevel, f.value[1]) \o " "
                        \o join(strs.value, ","),
                        LAMBDA message : _doLog(f.self, logLevel, message)))

\* _log(logLevel, args): the defaults, the renderings, the call site, the
\* dispatch.
_log(s, logLevel, args, trace) ==
  Then(checkDefaults(s),
       LAMBDA d : bind(lookup(renderings, args),
                       LAMBDA strs : logStrings(d, logLevel, strs, trace)))

F(s, arguments, trace) == _log(s, "Fatal", arguments, trace)

E(s, arguments, trace) == _log(s, "Error", arguments, trace)

W(s, arguments, trace) == _log(s, "Warn", arguments, trace)

I(s, arguments, trace) == _log(s, "Info", arguments, trace)

D(s, arguments, trace) == _log(s, "Debug", arguments, trace)

T(s, arguments, trace) == _log(s, "Trace", arguments, trace)

\* ------------------------------------------------------------------------
\* The state machine: one step is one call of the API.

\* The sink configuration calls made so far: none (n = 0), exactly the call
\* op(level) (n = 1), or two and more (n = 2).  first tells that the one
\* call was made while the three flags were undefined, that is before any
\* log call and any checkDefaults().
NoCalls == [n |-> 0, op |-> "", level |-> "", first |-> FALSE]

Noted(op, level) ==
  IF cfgCalls.n = 0
  THEN [n |-> 1, op |-> op, level |-> level,
        first |-> /\ _enableStdout = Undefined
                  /\ _enableStderr = Undefined
                  /\ _enableQueue = Undefined]
  ELSE [n |-> 2, op |-> "", level |-> "", first |-> FALSE]

\* The last call was no log call; or it was the log call logLevel(args).
NoLog == [logLevel |-> "", args |-> <<>>]

LogCall(logLevel, args) == [logLevel |-> logLevel, args |-> args]

Init ==
  /\ _enableStdout = Undefined /\ _stdoutLevel = Undefined
  /\ _enableStderr = Undefined /\ _stderrLevel = Undefined
  /\ _enableQueue = Undefined /\ _queueLevel = Undefined
  /\ _fileFuncPad = Undefined /\ _linePad = Undefined
  /\ _queue = Undefined
  /\ stdout = <<>> /\ stderr = <<>>
  /\ thrown = NoError
  /\ returned = ""
  /\ logged = NoLog
  /\ cfgCalls = NoCalls
  /\ paddingSet = FALSE

\* module.exports when a call starts: the console lines are those of the
\* call.
Begin == [getSelf EXCEPT !.stdout = <<>>, !.stderr = <<>>]

\* A call ends in r: module.exports is r.self, thrown the message of its
\* exception, returned the string it returns ("" when it returns none), and
\* logged the log call it was, if it was one.
End(r, value, log) ==
  /\ _enableStdout' = r.self._enableStdout /\ _stdoutLevel' = r.self._stdoutLevel
  /\ _enableStderr' = r.self._enableStderr /\ _stderrLevel' = r.self._stderrLevel
  /\ _enableQueue' = r.self._enableQueue /\ _queueLevel' = r.self._queueLevel
  /\ _fileFuncPad' = r.self._fileFuncPad /\ _linePad' = r.self._linePad
  /\ _queue' = r.self._queue
  /\ stdout' = r.self.stdout /\ stderr' = r.self.stderr
  /\ thrown' = r.error
  /\ returned' = (IF r.error = NoError THEN value ELSE "")
  /\ logged' = log

\* The queue a call leaves holds at most limit messages.
Bounded(r, limit) ==
  IF r.self._queue = Undefined THEN TRUE ELSE Len(r.self._queue[1]) <= limit

EnableStdout(level) ==
  /\ \E r \in {enableStdout(Begin, level)} : End(r, "", NoLog)
  /\ cfgCalls' = Noted("enableStdout", level)
  /\ UNCHANGED paddingSet

DisableStdout ==
  /\ \E r \in {disableStdout(Begin)} : End(r, "", NoLog)
  /\ cfgCalls' = Noted("disableStdout", "")
  /\ UNCHANGED paddingSet

EnableStderr(level) ==
  /\ \E r \in {enableStderr(Begin, level)} : End(r, "", NoLog)
  /\ cfgCalls' = Noted("enableStderr", level)
  /\ UNCHANGED paddingSet

DisableStderr ==
  /\ \E r \in {disableStderr(Begin)} : End(r, "", NoLog)
  /\ cfgCalls' = Noted("disableStderr", "")
  /\ UNCHANGED paddingSet

EnableQueue(level) ==
  /\ \E r \in {enableQueue(Begin, level)} : End(r, "", NoLog)
  /\ cfgCalls' = Noted("enableQueue", level)
  /\ UNCHANGED paddingSet

DisableQueue ==
  /\ \E r \in {disableQueue(Begin)} : End(r, "", NoLog)
  /\ cfgCalls' = Noted("disableQueue", "")
  /\ UNCHANGED paddingSet

EmptyQueue ==
  /\ \E r \in {emptyQueue(Begin)} : End(r, "", NoLog)
  /\ UNCHANGED <<cfgCalls, paddingSet>>

SetPadding(widths) ==
  /\ \E r \in {setPadding(Begin, widths[1], widths[2])} : End(r, "", NoLog)
  /\ paddingSet' = TRUE
  /\ UNCHANGED cfgCalls

CheckDefaults ==
  /\ \E r \in {checkDefaults(Begin)} : End(r, "", NoLog)
  /\ UNCHANGED <<cfgCalls, paddingSet>>

Peek ==
  /\ \E r \in {peek(Begin)} : End(r, r.value, NoLog)
  /\ UNCHANGED <<cfgCalls, paddingSet>>

Pop ==
  /\ \E r \in {pop(Begin)} : End(r, r.value, NoLog)
  /\ UNCHANGED <<cfgCalls, paddingSet>>

LogF(args, callers, limit) ==
  /\ \E r \in {F(Begin, args, facadeTrace("F", 108) \o callers)} :
       Bounded(r, limit) /\ End(r, "", LogCall("Fatal", args))
  /\ UNCHANGED <<cfgCalls, paddingSet>>

LogE(args, callers, limit) ==
  /\ \E r \in {E(Begin, args, facadeTrace("E", 112) \o callers)} :
       Bounded(r, limit) /\ End(r, "", LogCall("Error", args))
  /\ UNCHANGED <<cfgCalls, paddingSet>>

LogW(args, callers, limit) ==
  /\ \E r \in {W(Begin, args, facadeTrace("W", 116) \o callers)} :
       Bounded(r, limit) /\ End(r, "", LogCall("Warn", args))
  /\ UNCHANGED <<cfgCalls, paddingSet>>

LogI(args, callers, limit) ==
  /\ \E r \in {I(Begin, args, facadeTrace("I", 120) \o callers)} :
       Bounded(r, limit) /\ End(r, "", LogCall("Info", args))
  /\ UNCHANGED <<cfgCalls, paddingSet>>

LogD(args, callers, limit) ==
  /\ \E r \in {D(Begin, args, facadeTrace("D", 124) \o callers)} :
       Bounded(r, limit) /\ End(r, "", LogCall("Debug", args))
  /\ UNCHANGED <<cfgCalls, paddingSet>>

LogT(args, callers, limit) ==
  /\ \E r \in {T(Begin, args, facadeTrace("T", 128) \o callers)} :
       Bounded(r, limit) /\ End(r, "", LogCall("Trace", args))
  /\ UNCHANGED <<cfgCalls, paddingSet>>

Next ==
  \/ \E level \in LevelNames : EnableStdout(level)
  \/ DisableStdout
  \/ \E level \in LevelNames : EnableStderr(level)
  \/ DisableStderr
  \/ \E level \in LevelNames : EnableQueue(level)
  \/ DisableQueue
  \/ EmptyQueue
  \/ \E widths \in PadWidths : SetPadding(widths)
  \/ CheckDefaults
  \/ Peek
  \/ Pop
  \/ \E input \in LogInputs : LogF(input[1], input[2], MaxQueue)
  \/ \E input \in LogInputs : LogE(input[1], input[2], MaxQueue)
  \/ \E input \in LogInputs : LogW(input[1], input[2], MaxQueue)
  \/ \E input \in LogInputs : LogI(input[1], input[2], MaxQueue)
  \/ \E input \in LogInputs : LogD(input[1], input[2], MaxQueue)
  \/ \E input \in LogInputs : LogT(input[1], input[2], MaxQueue)

Spec == Init /\ [][Next]_vars

\* The calls that fill and drain the queue: one level for the queue, one
\* argument list, one caller, and a longer queue.
QueueLevelNames == {"Info"}

QueueLogInputs == { << <<stringValue("a")>>, << "    at main (/srv/app.js:12:5)" >> >> }

NextQueue ==
  \/ \E level \in QueueLevelNames : EnableQueue(level)
  \/ DisableQueue
  \/ EmptyQueue
  \/ Peek
  \/ Pop
  \/ \E input \in QueueLogInputs : LogF(input[1], input[2], MaxRetained)
  \/ \E input \in QueueLogInputs : LogE(input[1], input[2], MaxRetained)
  \/ \E input \in QueueLogInputs : LogW(input[1], input[2], MaxRetained)
  \/ \E input \in QueueLogInputs : LogI(input[1], input[2], MaxRetained)
  \/ \E input \in QueueLogInputs : LogD(input[1], input[2], MaxRetained)
  \/ \E input \in QueueLogInputs : LogT(input[1], input[2], MaxRetained)

SpecQueue == Init /\ [][NextQueue]_vars

\* The enable calls alone, given every level name and names that are none:
\* another spelling, the empty string, a name with a space behind it.
LevelInputs ==
  {"Fatal", "Error", "Warn", "Info", "Debug", "Trace", "fatal", "", "Warn "}

NextLevels ==
  \/ \E level \in LevelInputs : EnableStdout(level)
  \/ \E level \in LevelInputs : EnableStderr(level)
  \/ \E level \in LevelInputs : EnableQueue(level)

SpecLevels == Init /\ [][NextLevels]_vars

\* The log calls given an undefined or a null argument, with stdout and the
\* queue enabled or not.
RenderInputs ==
  { <<args, << "    at main (/srv/app.js:12:5)" >> >> : args \in RenderArgLists }

NextRender ==
  \/ \E level \in QueueLevelNames : EnableStdout(level)
  \/ \E level \in QueueLevelNames : EnableQueue(level)
  \/ EmptyQueue
  \/ \E input \in RenderInputs : LogF(input[1], input[2], MaxQueue)
  \/ \E input \in RenderInputs : LogE(input[1], input[2], MaxQueue)
  \/ \E input \in RenderInputs : LogW(input[1], input[2], MaxQueue)
  \/ \E input \in RenderInputs : LogI(input[1], input[2], MaxQueue)
  \/ \E input \in RenderInputs : LogD(input[1], input[2], MaxQueue)
  \/ \E input \in RenderInputs : LogT(input[1], input[2], MaxQueue)

SpecRender == Init /\ [][NextRender]_vars

\* ------------------------------------------------------------------------
\* The properties of the calls.

\* The rank of the level of a log call.
rankOf(logLevel) ==
  CASE logLevel = "Fatal" -> 0
    [] logLevel = "Error" -> 1
    [] logLevel = "Warn"  -> 2
    [] logLevel = "Info"  -> 3
    [] logLevel = "Debug" -> 4
    [] logLevel = "Trace" -> 5

\* The six level names.
ValidLevels == {"Fatal", "Error", "Warn", "Info", "Debug", "Trace"}

\* The messages a queue property holds: none when it is undefined.
queueOf(q) == IF q = Undefined THEN <<>> ELSE q[1]

\* A sink with this flag and this threshold takes a message of this rank.
takes(flag, threshold, rank) ==
  flag = Def(TRUE) /\ threshold # Undefined /\ rank <= threshold[1]

\* The three flags and the three thresholds of module.exports as s.
sinkState(s) ==
  <<s._enableStdout, s._stdoutLevel, s._enableStderr, s._stderrLevel,
    s._enableQueue, s._queueLevel>>

\* The step is a log call that returned, so one that reached the dispatch.
LogReturned == logged' # NoLog /\ thrown' = NoError

\* The step appended exactly the message m to the queue.
Enqueued(m) == queueOf(_queue') = Append(queueOf(_queue), m)

\* The step left the messages of the queue as they were.
QueueKept == queueOf(_queue') = queueOf(_queue)

\* The lines the step wrote to the console and appended to the queue.
Delivered ==
  { stdout'[i] : i \in 1..Len(stdout') } \cup { stderr'[i] : i \in 1..Len(stderr') }
  \cup (IF Len(queueOf(_queue')) > Len(queueOf(_queue))
        THEN { queueOf(_queue')[Len(queueOf(_queue'))] } ELSE {})

\* The step of a log call of rank rank delivered to stdout, to stderr and to
\* the queue exactly as toStdout, toStderr and toQueue say, and the same
\* message to each.
DeliveredTo(toStdout, toStderr, toQueue) ==
  /\ Len(stdout') = (IF toStdout THEN 1 ELSE 0)
  /\ Len(stderr') = (IF toStderr THEN 1 ELSE 0)
  /\ IF toQueue THEN \E m \in Delivered : Enqueued(m) ELSE QueueKept
  /\ Cardinality(Delivered) <= 1

\* C1: a log call that reaches the dispatch writes its message to stdout, to
\* stderr and to the queue, each on its own, if and only if after the
\* defaulting of that call the sink's flag is true and the rank of the level
\* is at most the sink's threshold; the sinks that take it all get the same
\* message, and the queue gains nothing otherwise.
C1_Dispatch ==
  [][LogReturned =>
       DeliveredTo(takes(_enableStdout', _stdoutLevel', rankOf(logged'.logLevel)),
                   takes(_enableStderr', _stderrLevel', rankOf(logged'.logLevel)),
                   takes(_enableQueue', _queueLevel', rankOf(logged'.logLevel)))]_vars

\* A log call at the threshold of all three sinks has reached all three.
C1_Witness ==
  /\ logged.logLevel = "Warn" /\ thrown = NoError
  /\ _stdoutLevel = Def(2) /\ _stderrLevel = Def(2) /\ _queueLevel = Def(2)
  /\ Len(stdout) = 1 /\ stderr = stdout
  /\ queueOf(_queue) = stdout

LogAfterOnly(op) ==
  /\ cfgCalls.n = 1 /\ cfgCalls.op = op /\ cfgCalls.level \in ValidLevels
  /\ logged' # NoLog

\* The log call leaves of the three sinks the one of op enabled, and if it
\* reaches the dispatch it is delivered to that sink when its rank is at most
\* the rank of L, and to no sink otherwise.
OnlySinkOf(op) ==
  LET within == rankOf(logged'.logLevel) <= rankOf(cfgCalls.level)
      on(x) == IF op = x THEN Def(TRUE) ELSE Def(FALSE)
  IN /\ _enableStdout' = on("enableStdout")
     /\ _enableStderr' = on("enableStderr")
     /\ _enableQueue' = on("enableQueue")
     /\ (thrown' = NoError =>
           DeliveredTo(op = "enableStdout" /\ within,
                       op = "enableStderr" /\ within,
                       op = "enableQueue" /\ within))

EnableFailed ==
  /\ \/ \E level \in LevelNames : EnableStdout(level)
     \/ \E level \in LevelNames : EnableStderr(level)
     \/ \E level \in LevelNames : EnableQueue(level)
  /\ thrown' # NoError

\* C4: an enable call given a name that is none of the six level names fails
\* and leaves the three flags and the three thresholds as they were.  The
\* code assigns the flag before it looks the name up: enableStdout("Verbose")
\* on a fresh module throws and leaves _enableStdout true.
C4_FailedEnableMutatesNothing ==
  [][EnableFailed => sinkState(getSelf') = sinkState(getSelf)]_vars

\* What a disable call must leave of the flag and the threshold of its sink.
Disabled(flag, before, after) ==
  /\ flag = Def(FALSE)
  /\ after = (IF before = Undefined THEN Def(4) ELSE before)

\* C5: a disable call sets the flag of its sink to false, sets the threshold
\* to Debug (4) when none was set, and leaves a threshold set earlier as it
\* is.  The code tests a property nothing assigns, so the threshold is set to
\* 4 always: enableStdout("Warn") then disableStdout() leaves _stdoutLevel 4.
C5_DisableKeepsThreshold ==
  [][/\ DisableStdout => Disabled(_enableStdout', _stdoutLevel, _stdoutLevel')
     /\ DisableStderr => Disabled(_enableStderr', _stderrLevel, _stderrLevel')
     /\ DisableQueue => Disabled(_enableQueue', _queueLevel, _queueLevel')]_vars

RECURSIVE drain(_, _)
\* n calls of pop() from module.exports as s: the strings they return, in
\* order, and module.exports as they leave it.
drain(s, n) ==
  IF n = 0 THEN [self |-> s, values |-> <<>>]
  ELSE bind(pop(s),
            LAMBDA first :
              bind(drain(first.self, n - 1),
                   LAMBDA rest : [self |-> rest.self,
                                  values |-> <<first.value>> \o rest.values]))

\* C6: emptyQueue() leaves no message; a log call that the enabled queue
\* takes puts its message behind those retained; and as many pop() calls as
\* there are messages return them in the order of the log calls, after which
\* pop() and peek() return the empty string.
C6_QueueRoundTrip ==
  [][/\ EmptyQueue => queueOf(_queue') = <<>>
     /\ (LogReturned /\ takes(_enableQueue', _queueLevel', rankOf(logged'.logLevel))) =>
          /\ \E m \in Delivered : Enqueued(m)
          /\ LET drained == drain(getSelf', Len(queueOf(_queue')))
             IN /\ drained.values = queueOf(_queue')
                /\ pop(drained.self).value = ""
                /\ peek(drained.self).value = ""]_vars

\* Two log calls at different levels have filled the empty queue.
C6_Witness ==
  /\ logged # NoLog /\ thrown = NoError
  /\ Len(queueOf(_queue)) = 2
  /\ charAt(queueOf(_queue)[1], 0) = "W"
  /\ charAt(queueOf(_queue)[2], 0) = "F"

\* C7: a log call with an argument of an unsupported type, wherever among
\* the arguments, throws, writes nothing to stdout or stderr and leaves the
\* queue as it was, whatever the configuration.
C7_UnsupportedArgument ==
  [][(/\ logged' # NoLog
      /\ \E i \in 1..Len(logged'.args) :
           logged'.args[i].t \in {"function", "symbol"}) =>
       /\ thrown' # NoError
       /\ stdout' = <<>> /\ stderr' = <<>>
       /\ _queue' = _queue]_vars

\* A log call whose second argument is a symbol has failed with all three
\* sinks enabled at a threshold that takes its level.
C7_Witness ==
  /\ logged.logLevel = "Fatal" /\ Len(logged.args) = 2
  /\ logged.args[2].t = "symbol"
  /\ thrown # NoError
  /\ _enableStdout = Def(TRUE) /\ _enableStderr = Def(TRUE)
  /\ _enableQueue = Def(TRUE)
  /\ _stdoutLevel = Def(2) /\ _stderrLevel = Def(2) /\ _queueLevel = Def(2)

\* C8: in every state the calls reach, the state a failed enable call
\* leaves included, checkDefaults() run twice in a row leaves the three
\* flags and the three thresholds that its first run leaves.
C8_CheckDefaultsIdempotent ==
  LET once  == checkDefaults(getSelf)
      twice == checkDefaults(once.self)
  IN /\ once.error = NoError /\ twice.error = NoError
     /\ sinkState(twice.self) = sinkState(once.self)

\* enableStdout("Verbose") alone has failed, and checkDefaults() has then
\* given stdout the threshold the failed call did not set.
C8_Witness ==
  /\ cfgCalls = [n |-> 1, op |-> "enableStdout", level |-> "Verbose", first |-> TRUE]
  /\ logged = NoLog
  /\ sinkState(getSelf) = <<Def(TRUE), Def(4), Def(FALSE), Def(4), Def(FALSE), Def(4)>>
  /\ sinkState(checkDefaults(getSelf).self) = sinkState(getSelf)

\* A property the defaulting must leave alone: one that is set keeps its
\* value.
KeptIfSet(before, after) == before # Undefined => after = before

\* C9: the defaulting that starts a log call changes no flag and no
\* threshold that is set, and no padding width that setPadding set.  The
\* code's setDefaults() calls setPadding(30, 5): setPadding(12, 3) on a fresh
\* module, then a log call, leaves the widths (30, 5).
C9_DefaultingKeepsExplicit ==
  [][logged' # NoLog =>
       /\ KeptIfSet(_enableStdout, _enableStdout')
       /\ KeptIfSet(_stdoutLevel, _stdoutLevel')
       /\ KeptIfSet(_enableStderr, _enableStderr')
       /\ KeptIfSet(_stderrLevel, _stderrLevel')
       /\ KeptIfSet(_enableQueue, _enableQueue')
       /\ KeptIfSet(_queueLevel, _queueLevel')
       /\ (paddingSet => _fileFuncPad' = _fileFuncPad /\ _linePad' = _linePad)]_vars

\* The oldest message of the queue q, "" when it holds none.
oldest(q) == IF queueOf(q) = <<>> THEN "" ELSE queueOf(q)[1]

\* C10: peek() returns the oldest message and leaves the queue as it is;
\* pop() returns the message peek() returns and removes that one entry; both
\* return "" and change nothing when the queue is empty or undefined;
\* emptyQueue() leaves no message, and leaves an undefined queue undefined,
\* without an exception.
C10_PeekPopEmpty ==
  [][/\ Peek => /\ returned' = oldest(_queue) /\ thrown' = NoError
                /\ _queue' = _queue
     /\ Pop => /\ returned' = oldest(_queue) /\ thrown' = NoError
               /\ returned' = peek(getSelf).value
               /\ IF queueOf(_queue) = <<>> THEN _queue' = _queue
                  ELSE _queue' = Def(Tail(queueOf(_queue)))
     /\ EmptyQueue => /\ queueOf(_queue') = <<>> /\ thrown' = NoError
                      /\ (_queue = Undefined => _queue' = Undefined)]_vars

\* pop() has returned the older of two messages: the one that stays is
\* another.
C10_Witness ==
  /\ logged = NoLog /\ thrown = NoError
  /\ charAt(returned, 0) = "W"
  /\ Len(queueOf(_queue)) = 1
  /\ charAt(queueOf(_queue)[1], 0) = "F"

\* What an enable call given the name level must do to the threshold of its
\* sink: set it to the rank of a level name, and throw for any other name.
Ranked(level, before, after) ==
  IF level \in ValidLevels
  THEN /\ thrown' = NoError
       /\ after = Def(rankOf(level))
  ELSE thrown' # NoError /\ after = before

\* C11: _getIntLevel maps Fatal, Error, Warn, Info, Debug, Trace to 0, 1, 2,
\* 3, 4, 5, and throws for every other name: an enable call stores the rank
\* of a level name as the threshold, and for another name throws and stores
\* no threshold.
C11_RankOf ==
  [][\A level \in LevelInputs :
       /\ EnableStdout(level) => Ranked(level, _stdoutLevel, _stdoutLevel')
       /\ EnableStderr(level) => Ranked(level, _stderrLevel, _stderrLevel')
       /\ EnableQueue(level) => Ranked(level, _queueLevel, _queueLevel')]_vars

\* The three sinks have been given Fatal, Info and Trace, and the last call
\* was given a name in another spelling.
C11_Witness ==
  /\ _stdoutLevel = Def(0) /\ _stderrLevel = Def(3) /\ _queueLevel = Def(5)
  /\ thrown = "Invalid log level supplied: fatal"

\* The rendering an argument that is a string, undefined or null must get.
shown(arg) == IF arg.t = "string" THEN arg.s ELSE ""

RECURSIVE shownAll(_)
shownAll(args) ==
  IF Len(args) = 0 THEN <<>> ELSE <<shown(args[1])>> \o shownAll(Tail(args))

\* The string str ends with the string tail.
endsWith(str, tail) ==
  Len(str) >= Len(tail) /\ SubSeq(str, Len(str) - Len(tail) + 1, Len(str)) = tail

\* C12: a log call whose arguments are strings and undefined or null values
\* does not throw, and its message, with the empty string for each undefined
\* or null argument, goes to the sinks that take its level.  The code renders
\* undefined as "" but throws the TypeError of an unsupported type for null.
C12_UndefinedAndNull ==
  [][(/\ logged' # NoLog
      /\ \A i \in 1..Len(logged'.args) :
           logged'.args[i].t \in {"undefined", "null", "string"}) =>
       /\ thrown' = NoError
       /\ DeliveredTo(takes(_enableStdout', _stdoutLevel', rankOf(logged'.logLevel)),
                      takes(_enableStderr', _stderrLevel', rankOf(logged'.logLevel)),
                      takes(_enableQueue', _queueLevel', rankOf(logged'.logLevel)))
       /\ \A m \in Delivered :
            endsWith(m, "): " \o join(shownAll(logged'.args), ","))]_vars

\* A flag and a threshold that make a sink configuration: a boolean and a
\* rank.
SinkConfig(flag, threshold) ==
  /\ flag \in {Def(TRUE), Def(FALSE)}
  /\ threshold # Undefined /\ threshold[1] \in 0..5

\* C13: once a log call or a configuration call of a sink has defined the
\* flag of a sink, the sink has a boolean flag and a threshold that is a rank
\* in 0..5, and after a log call all three sinks have.  The code's
\* enableStdout("Verbose") throws after it has set the flag: stdout has a flag
\* and no threshold.
C13_SinkConfigs ==
  /\ _enableStdout # Undefined => SinkConfig(_enableStdout, _stdoutLevel)
  /\ _enableStderr # Undefined => SinkConfig(_enableStderr, _stderrLevel)
  /\ _enableQueue # Undefined => SinkConfig(_enableQueue, _queueLevel)
  /\ logged # NoLog =>
       /\ SinkConfig(_enableStdout, _stdoutLevel)
       /\ SinkConfig(_enableStderr, _stderrLevel)
       /\ SinkConfig(_enableQueue, _queueLevel)

\* C14: when a log call has resolved its call site and built the prefix, the
\* two padding widths are defined: those of the last setPadding call if one
\* was made, (30, 5) otherwise.  The code sets (30, 5) only in setDefaults():
\* after enableStdout("Warn") and no setPadding call a log call pads with
\* undefined widths, and after setPadding(12, 3) on a fresh module the first
\* log call pads with (30, 5).
C14_PaddingDefined ==
  [][LogReturned =>
       /\ _fileFuncPad' # Undefined /\ _linePad' # Undefined
       /\ IF paddingSet
          THEN \E widths \in PadWidths :
                 _fileFuncPad' = Def(widths[1]) /\ _linePad' = Def(widths[2])
          ELSE _fileFuncPad' = Def(30) /\ _linePad' = Def(5)]_vars

\* The frames of stack after frame 0 whose file is not that of frame 0.
differing(stack) == { i \in 2..Len(stack) : stack[i].file # stack[1].file }

\* The call site found for a stack is the frame frame, padded or not.
IsFrame(found, frame) ==
  /\ found # Undefined
  /\ trim(found[1].fileFunc) = frame.file \o " " \o frame.func
  /\ trim(found[1].line) = frame.line

\* C15: for every stack that _getStackTrace() can build, _getFileLineFunc()
\* returns the first frame after frame 0 whose file is not the file of frame
\* 0, and the last frame of the stack, as it is, when there is none.  The
\* code returns stack[stack.length], which is undefined, when there is none:
\* a log call from a file that is also named index.js throws.
C15_CallSite ==
  \A trace \in Traces :
    lookup(stacks, trace).error = NoError =>
      LET stack == lookup(stacks, trace).value
          found == _getFileLineFunc(getSelf, trace)
      IN /\ found.error = NoError
         /\ IF differing(stack) # {}
            THEN IsFrame(found.value, stack[least(differing(stack))])
            ELSE found.value = Def(stack[Len(stack)])

\* C16: a log call that throws leaves the three flags, the three thresholds,
\* the two padding widths and the queue as they were.  The code runs
\* checkDefaults() before it renders the arguments: F(function) on a fresh
\* module throws and leaves the defaults installed.
C16_NoPartialSuccess ==
  [][(logged' # NoLog /\ thrown' # NoError) =>
       /\ sinkState(getSelf') = sinkState(getSelf)
       /\ _fileFuncPad' = _fileFuncPad /\ _linePad' = _linePad
       /\ _queue' = _queue]_vars

\* The step runs the defaulting: it is a log call or a call of
\* checkDefaults().
Defaulting == logged' # NoLog \/ CheckDefaults

\* What the defaulting may do to the flag of a sink whose threshold is
\* threshold: a flag that is false stays false, a flag that is undefined
\* becomes true only if mayEnable, and the flag of a sink that has a flag and
\* no threshold, which enableX("Debug") repairs, is true.
DefaultedFlag(before, after, threshold, mayEnable) ==
  /\ before = Def(FALSE) => after = Def(FALSE)
  /\ before = Def(TRUE) => after = Def(TRUE)
  /\ before = Undefined => after = (IF mayEnable THEN Def(TRUE) ELSE Def(FALSE))
  /\ (before # Undefined /\ threshold = Undefined) => before = Def(TRUE)

StdoutKept == _enableStdout' = _enableStdout /\ _stdoutLevel' = _stdoutLevel

StderrKept == _enableStderr' = _enableStderr /\ _stderrLevel' = _stderrLevel

QueueConfigKept == _enableQueue' = _enableQueue /\ _queueLevel' = _queueLevel

PaddingKept == _fileFuncPad' = _fileFuncPad /\ _linePad' = _linePad

\* C18: an enable or disable call that returns leaves the flags and the
\* thresholds of the two other sinks, the padding widths and the queue as
\* they were, and setPadding changes the two padding widths only.
C18_OtherSinksKept ==
  [][/\ (((\E level \in LevelNames : EnableStdout(level)) \/ DisableStdout)
          /\ thrown' = NoError) =>
           StderrKept /\ QueueConfigKept /\ PaddingKept /\ _queue' = _queue
     /\ (((\E level \in LevelNames : EnableStderr(level)) \/ DisableStderr)
          /\ thrown' = NoError) =>
           StdoutKept /\ QueueConfigKept /\ PaddingKept /\ _queue' = _queue
     /\ (((\E level \in LevelNames : EnableQueue(level)) \/ DisableQueue)
          /\ thrown' = NoError) =>
           StdoutKept /\ StderrKept /\ PaddingKept /\ _queue' = _queue
     /\ (\E widths \in PadWidths : SetPadding(widths)) =>
           /\ StdoutKept /\ StderrKept /\ QueueConfigKept /\ _queue' = _queue
           /\ thrown' = NoError]_vars

\* enableQueue("Warn") is the one enable or disable call, made after the
\* defaults were installed, setPadding(12, 3) was called and a message was
\* retained: stderr, the padding and the message are as they were.
C18_Witness ==
  /\ cfgCalls = [n |-> 1, op |-> "enableQueue", level |-> "Warn", first |-> FALSE]
  /\ logged = NoLog /\ thrown = NoError
  /\ _enableQueue = Def(TRUE) /\ _queueLevel = Def(2)
  /\ _enableStderr = Def(TRUE) /\ _stderrLevel = Def(4)
  /\ _enableStdout = Def(FALSE)
  /\ _fileFuncPad = Def(12) /\ _linePad = Def(3)

\* C19: disableQueue() leaves the queue content as it was, and as many pop()
\* calls as there are messages then return them oldest first; while the
\* queue is disabled a log call appends nothing, peek() returns the oldest
\* retained message and pop() removes and returns it; enableQueue(L) leaves
\* the content as it was, and a log call the enabled queue takes puts its
\* message behind those retained.
C19_DisabledQueueRetains ==
  [][/\ DisableQueue =>
          /\ _queue' = _queue /\ _enableQueue' = Def(FALSE)
          /\ drain(getSelf', Len(queueOf(_queue))).values = queueOf(_queue)
     /\ (logged' # NoLog /\ _enableQueue = Def(FALSE)) =>
          _queue' = _queue /\ _enableQueue' = Def(FALSE)
     /\ (Peek /\ _enableQueue = Def(FALSE)) =>
          returned' = oldest(_queue) /\ _queue' = _queue
     /\ (Pop /\ _enableQueue = Def(FALSE) /\ queueOf(_queue) # <<>>) =>
          /\ returned' = Head(queueOf(_queue))
          /\ _queue' = Def(Tail(queueOf(_queue)))
     /\ (\E level \in QueueLevelNames : EnableQueue(level)) =>
          _queue' = _queue /\ _enableQueue' = Def(TRUE)
     /\ (/\ LogReturned /\ _enableQueue = Def(TRUE) /\ _queueLevel # Undefined
         /\ rankOf(logged'.logLevel) <= queueOf(_queueLevel)) =>
          \E m \in Delivered : Enqueued(m)]_vars

\* With the queue disabled pop() has returned the older of the two messages
\* retained before disableQueue(), and the newer one is still retained.
C19_Witness ==
  /\ _enableQueue = Def(FALSE) /\ cfgCalls.n = 2
  /\ logged = NoLog /\ thrown = NoError
  /\ charAt(returned, 0) = "W"
  /\ Len(queueOf(_queue)) = 1
  /\ charAt(queueOf(_queue)[1], 0) = "F"

====
